---- MODULE Spec2Model ----
(***************************************************************************)
(* Shop-data pipeline of archive/scripts/upload-shops-to-supabase:         *)
(*   geocode_korean_addresses.py      (Geocoder: process_csv, __main__)    *)
(*   transform_shops_for_supabase.py  (Transformer: parse_shop_type,       *)
(*                                     clean_phone_number, transform_shop, *)
(*                                     main)                               *)
(*                                                                         *)
(* Text is a sequence of one-character strings.  A Hangul syllable is one  *)
(* character, written here by its romanisation ("ne" is U+B124).  Numbers  *)
(* with a decimal part are integers counting tenths (37.5 is 375).         *)
(***************************************************************************)
EXTENDS Integers, Sequences, FiniteSets, TLC

VARIABLES
    \* ---- Geocoder (geocode_korean_addresses.py)
    KAKAO_API_KEY,      \* module global read from the environment ("" when unset)
    GOOGLE_MAPS_API_KEY,\* environment variable read by geocode_address_google
    use_google,         \* '--google' in sys.argv
    input_exists,       \* os.path.exists(input_csv)
    infile,             \* data rows of shop.csv
    gpc,                \* position of the Geocoder script
    rows_processed,
    rows_geocoded,
    outfile,            \* data rows written to shop_with_coordinates.csv
    events,             \* provider calls and sleeps, in order
    gerror,             \* exception that ended the run ("" when none)
    \* ---- parse_shop_type applied on its own
    type_str,
    parsed,
    ppc,
    \* ---- clean_phone_number applied on its own
    phone,
    cleaned,            \* clean_phone_number(phone)
    recleaned,          \* clean_phone_number(cleaned)
    hpc,
    \* ---- Transformer (transform_shops_for_supabase.py main)
    tpc,                \* position of the Transformer script
    tinput_exists,      \* shop_with_coordinates.csv can be opened
    trow,               \* loop variable "row": the row of the current iteration
    idx,                \* enumerate(reader, 1) index of the last row read
    shops,
    skipped,
    echoed,             \* records printed by the "first 5" progress line
    out_json,           \* content of shops_for_supabase.json
    test_batch          \* content of shops_test_batch.json

gvars == <<KAKAO_API_KEY, GOOGLE_MAPS_API_KEY, use_google, input_exists, infile,
           gpc, rows_processed, rows_geocoded, outfile, events, gerror>>
pvars == <<type_str, parsed, ppc>>
hvars == <<phone, cleaned, recleaned, hpc>>
tvars == <<tpc, tinput_exists, trow, idx, shops, skipped, echoed, out_json, test_batch>>
vars  == <<gvars, pvars, hvars, tvars>>

----------------------------------------------------------------------------
(* Bounds *)
MaxRows   == 3      \* data rows of the Geocoder's input table
MaxTypes  == 3      \* entries of a TYPE_OF_SHOP list
MaxTRows  == 11     \* data rows of the Transformer's input table
MaxPhone  == 4      \* characters of a PHONE_NUMBER cell

----------------------------------------------------------------------------
(* Python values and str methods *)

PyNone     == [tag |-> "None", val |-> <<>>]
PyList(l)  == [tag |-> "list", val |-> l]

IsSpace(c) == c \in {" ", "\t"}

RECURSIVE LStrip(_)
LStrip(s) ==
    IF s = <<>> THEN s
    ELSE IF IsSpace(Head(s)) THEN LStrip(Tail(s)) ELSE s

RECURSIVE RStrip(_)
RStrip(s) ==
    IF s = <<>> THEN s
    ELSE IF IsSpace(s[Len(s)]) THEN RStrip(SubSeq(s, 1, Len(s) - 1)) ELSE s

\* str.strip()
Strip(s) == RStrip(LStrip(s))

\* str.replace(a, b) for one-character a and b
Replace(s, a, b) == [i \in 1..Len(s) |-> IF s[i] = a THEN b ELSE s[i]]

\* str.split(sep) for a one-character sep: never empty, keeps empty pieces
RECURSIVE Split(_, _)
Split(s, sep) ==
    IF \A i \in 1..Len(s) : s[i] # sep THEN <<s>>
    ELSE LET i == CHOOSE k \in 1..Len(s) :
                      s[k] = sep /\ \A j \in 1..(k - 1) : s[j] # sep
         IN  <<SubSeq(s, 1, i - 1)>> \o Split(SubSeq(s, i + 1, Len(s)), sep)

\* sub in s
Contains(sub, s) ==
    \E i \in 0..(Len(s) - Len(sub)) : SubSeq(s, i + 1, i + Len(sub)) = sub

\* s.startswith(p)
StartsWith(s, p) == Len(s) >= Len(p) /\ SubSeq(s, 1, Len(p)) = p

----------------------------------------------------------------------------
(* transform_shops_for_supabase.py: category mapping *)

FullWidthComma == "fwcomma"     \* U+FF0C

NAIL_LABEL    == <<"ne", "il", "mi", "yong", "eop">>
GENERAL_LABEL == <<"il", "ban", "mi", "yong", "eop">>
COMPREHENSIVE_LABEL == <<"jong", "hap", "mi", "yong", "eop">>
SKIN_LABEL    == <<"pi", "bu", "mi", "yong", "eop">>
MAKEUP_LABEL  == <<"hwa", "jang", "middot", "bun", "jang", " ", "mi", "yong", "eop">>
GENERIC_LABEL == <<"mi", "yong", "eop">>

\* the dict literal, in insertion (= iteration) order
CATEGORY_MAPPING ==
    << [korean_type |-> NAIL_LABEL,          enum_val |-> "nail"],
       [korean_type |-> GENERAL_LABEL,       enum_val |-> "hair"],
       [korean_type |-> COMPREHENSIVE_LABEL, enum_val |-> "hair"],
       [korean_type |-> SKIN_LABEL,          enum_val |-> "waxing"],
       [korean_type |-> MAKEUP_LABEL,        enum_val |-> "eyebrow_tattoo"],
       [korean_type |-> GENERIC_LABEL,       enum_val |-> "hair"] >>

VALID_CATEGORIES == {"nail", "eyelash", "waxing", "eyebrow_tattoo", "hair"}

\* types = [t.strip() for t in type_str.replace(fullwidth, ',').split(',')]
SplitTypes(s) ==
    LET pieces == Split(Replace(s, FullWidthComma, ","), ",")
    IN  [i \in 1..Len(pieces) |-> Strip(pieces[i])]

\* the category of a token with the partial match taking the last entry found
MapType_LastMatch(t) ==
    IF \E k \in 1..Len(CATEGORY_MAPPING) : CATEGORY_MAPPING[k].korean_type = t
    THEN LET k == CHOOSE k \in 1..Len(CATEGORY_MAPPING) :
                      CATEGORY_MAPPING[k].korean_type = t
         IN  CATEGORY_MAPPING[k].enum_val
    ELSE IF \E k \in 1..Len(CATEGORY_MAPPING) :
                 Contains(CATEGORY_MAPPING[k].korean_type, t)
    THEN LET k == CHOOSE k \in 1..Len(CATEGORY_MAPPING) :
                      /\ Contains(CATEGORY_MAPPING[k].korean_type, t)
                      /\ \A j \in (k + 1)..Len(CATEGORY_MAPPING) :
                             ~Contains(CATEGORY_MAPPING[j].korean_type, t)
         IN  CATEGORY_MAPPING[k].enum_val
    ELSE "hair"

\* the category of a token with unknown text passed through as "unknown"
MapType_NoDefault(t) ==
    IF \E k \in 1..Len(CATEGORY_MAPPING) : CATEGORY_MAPPING[k].korean_type = t
    THEN LET k == CHOOSE k \in 1..Len(CATEGORY_MAPPING) :
                      CATEGORY_MAPPING[k].korean_type = t
         IN  CATEGORY_MAPPING[k].enum_val
    ELSE IF \E k \in 1..Len(CATEGORY_MAPPING) :
                 Contains(CATEGORY_MAPPING[k].korean_type, t)
    THEN LET k == CHOOSE k \in 1..Len(CATEGORY_MAPPING) :
                      /\ Contains(CATEGORY_MAPPING[k].korean_type, t)
                      /\ \A j \in 1..(k - 1) :
                             ~Contains(CATEGORY_MAPPING[j].korean_type, t)
         IN  CATEGORY_MAPPING[k].enum_val
    ELSE "unknown"

\* body of "for t in types": the category appended for one token
MapType(t) ==
    IF \E k \in 1..Len(CATEGORY_MAPPING) : CATEGORY_MAPPING[k].korean_type = t
    THEN LET k == CHOOSE k \in 1..Len(CATEGORY_MAPPING) :
                      CATEGORY_MAPPING[k].korean_type = t
         IN  CATEGORY_MAPPING[k].enum_val
    ELSE IF \E k \in 1..Len(CATEGORY_MAPPING) :
                 Contains(CATEGORY_MAPPING[k].korean_type, t)
    THEN LET k == CHOOSE k \in 1..Len(CATEGORY_MAPPING) :
                      /\ Contains(CATEGORY_MAPPING[k].korean_type, t)
                      /\ \A j \in 1..(k - 1) :
                             ~Contains(CATEGORY_MAPPING[j].korean_type, t)
         IN  CATEGORY_MAPPING[k].enum_val
    ELSE "hair"

\* the list kept as it is, duplicates included
Unique_KeepAll(cats, acc) == acc \o cats

\* the "seen" loop: drop later duplicates, keep first-seen order
RECURSIVE Unique(_, _)
Unique(cats, acc) ==
    IF cats = <<>> THEN acc
    ELSE IF \E i \in 1..Len(acc) : acc[i] = Head(cats)
         THEN Unique(Tail(cats), acc)
         ELSE Unique(Tail(cats), Append(acc, Head(cats)))

parse_shop_type(s) ==
    LET types             == SplitTypes(s)
        categories        == [i \in 1..Len(types) |-> MapType(types[i])]
        unique_categories == Unique(categories, <<>>)
    IN  IF unique_categories = <<>>
        THEN [main |-> "hair", sub |-> PyNone]
        ELSE [main |-> unique_categories[1],
              sub  |-> IF Len(unique_categories) > 1
                       THEN PyList(Tail(unique_categories))
                       ELSE PyNone]

----------------------------------------------------------------------------
(* Numbers as text *)

DigitChars == <<"0", "1", "2", "3", "4", "5", "6", "7", "8", "9">>

IsDigit(c)  == \E d \in 1..10 : DigitChars[d] = c
DigitVal(c) == (CHOOSE d \in 1..10 : DigitChars[d] = c) - 1

RECURSIVE IntVal(_)
IntVal(ds) ==
    IF ds = <<>> THEN 0
    ELSE IntVal(SubSeq(ds, 1, Len(ds) - 1)) * 10 + DigitVal(ds[Len(ds)])

RECURSIVE IntStr(_)
IntStr(n) ==
    IF n < 10 THEN <<DigitChars[n + 1]>>
    ELSE IntStr(n \div 10) \o <<DigitChars[(n % 10) + 1]>>

\* float(s) for text made of blanks, a sign, digits and a point (no exponent,
\* inf or nan); ok = FALSE is ValueError, val counts tenths
ParseFloat(s) ==
    LET t     == Strip(s)
        neg   == t # <<>> /\ Head(t) = "-"
        body  == IF t # <<>> /\ Head(t) \in {"-", "+"} THEN Tail(t) ELSE t
        dots  == {i \in 1..Len(body) : body[i] = "."}
        wellFormed ==
            /\ Cardinality(dots) <= 1
            /\ \A i \in 1..Len(body) : body[i] = "." \/ IsDigit(body[i])
            /\ \E i \in 1..Len(body) : IsDigit(body[i])
        dot   == IF dots = {} THEN Len(body) + 1 ELSE CHOOSE i \in dots : TRUE
        whole == SubSeq(body, 1, dot - 1)
        frac  == SubSeq(body, dot + 1, Len(body))
        mag   == IntVal(whole) * 10 + (IF frac = <<>> THEN 0 ELSE DigitVal(frac[1]))
    IN  IF wellFormed
        THEN [ok |-> TRUE,  val |-> IF neg THEN 0 - mag ELSE mag]
        ELSE [ok |-> FALSE, val |-> 0]

\* str(f) of a float, as csv.writer writes it
FloatStr(v) ==
    LET mag == IF v < 0 THEN 0 - v ELSE v
    IN  (IF v < 0 THEN <<"-">> ELSE <<>>)
            \o IntStr(mag \div 10) \o <<".">> \o <<DigitChars[(mag % 10) + 1]>>

----------------------------------------------------------------------------
(* geocode_korean_addresses.py *)

JsonStr(s) == [tag |-> "str", val |-> s]
JsonAbsent == [tag |-> "absent", val |-> <<>>]

\* what requests.get(...).json() can give for the Kakao endpoint;
\* exc = TRUE is a requests.exceptions.RequestException
KakaoDocs ==
    { [x |-> JsonStr(<<"1", "2", "7", ".", "0">>), y |-> JsonStr(<<"3", "7", ".", "5">>)],
      [x |-> JsonAbsent,                           y |-> JsonStr(<<"3", "7", ".", "5">>)],
      [x |-> JsonStr(<<"n", "/", "a">>),           y |-> JsonStr(<<"3", "7", ".", "5">>)] }

KakaoResponses ==
    { [exc |-> TRUE,  documents |-> <<>>], [exc |-> FALSE, documents |-> <<>>] }
        \cup { [exc |-> FALSE, documents |-> <<d>>] : d \in KakaoDocs }

\* the Google endpoint: results[0] either has geometry.location or lacks it
GoogleResults ==
    { [geometry |-> TRUE,  lat |-> 375, lng |-> 1270],
      [geometry |-> FALSE, lat |-> 0,   lng |-> 0] }

GoogleResponses ==
    { [exc |-> TRUE,  status |-> "", results |-> <<>>],
      [exc |-> FALSE, status |-> "ZERO_RESULTS", results |-> <<>>],
      [exc |-> FALSE, status |-> "OK", results |-> <<>>] }
        \cup { [exc |-> FALSE, status |-> "OK", results |-> <<r>>] : r \in GoogleResults }

Return(v)   == [raised |-> "",  called |-> TRUE,  value |-> v]
Raise(e, c) == [raised |-> e,   called |-> c,     value |-> PyNone]
PyTuple(a, b) == [tag |-> "tuple", val |-> <<a, b>>]

\* float(result.get(k, 0))
KakaoField(v) == IF v.tag = "absent" THEN [ok |-> TRUE, val |-> 0] ELSE ParseFloat(v.val)

geocode_address_kakao(address, resp) ==
    IF KAKAO_API_KEY = ""
    THEN Raise("ValueError: KAKAO_API_KEY environment variable not set", FALSE)
    ELSE IF resp.exc THEN Return(PyNone)
    ELSE IF Len(resp.documents) > 0
    THEN LET result == resp.documents[1]
             lon    == KakaoField(result.x)
             lat    == KakaoField(result.y)
         IN  IF ~lon.ok \/ ~lat.ok
             THEN Raise("ValueError: could not convert string to float", TRUE)
             ELSE Return(PyTuple(lat.val, lon.val))
    ELSE Return(PyNone)

geocode_address_google(address, resp) ==
    IF GOOGLE_MAPS_API_KEY = ""
    THEN Raise("ValueError: GOOGLE_MAPS_API_KEY environment variable not set", FALSE)
    ELSE IF resp.exc THEN Return(PyNone)
    ELSE IF resp.status = "OK" /\ Len(resp.results) > 0
    THEN LET r == resp.results[1]
         IN  IF ~r.geometry
             THEN Raise("KeyError: 'geometry'", TRUE)
             ELSE Return(PyTuple(r.lat, r.lng))
    ELSE Return(PyNone)

\* rows of shop.csv
GeoRowPool ==
    { [SHOP_NAME |-> <<"A">>, ADDRESS |-> <<"a">>],
      [SHOP_NAME |-> <<"B">>, ADDRESS |-> <<>>],
      [SHOP_NAME |-> <<"C">>, ADDRESS |-> <<" ">>],
      [SHOP_NAME |-> <<"D">>, ADDRESS |-> <<" ", "b", " ">>] }

RECURSIVE SeqsUpTo(_, _)
SeqsUpTo(S, n) ==
    IF n = 0 THEN {<<>>}
    ELSE LET shorter == SeqsUpTo(S, n - 1)
         IN  shorter \cup {Append(q, e) : q \in shorter, e \in S}

GeoTables == SeqsUpTo(GeoRowPool, MaxRows)

GeoIdle ==
    /\ KAKAO_API_KEY = "" /\ GOOGLE_MAPS_API_KEY = "" /\ use_google = FALSE
    /\ input_exists = FALSE /\ infile = <<>> /\ gpc = "idle"
    /\ rows_processed = 0 /\ rows_geocoded = 0 /\ outfile = <<>>
    /\ events = <<>> /\ gerror = ""

GeoInit ==
    /\ KAKAO_API_KEY \in {"", "kakao-key"}
    /\ GOOGLE_MAPS_API_KEY \in {"", "google-key"}
    /\ use_google \in BOOLEAN
    /\ input_exists \in BOOLEAN
    /\ infile \in (IF input_exists THEN GeoTables ELSE {<<>>})
    /\ gpc = "start"
    /\ rows_processed = 0 /\ rows_geocoded = 0 /\ outfile = <<>>
    /\ events = <<>> /\ gerror = ""

\* __main__: the existence check
GeoMissingInput ==
    /\ gpc = "start" /\ ~input_exists
    /\ gpc' = "exit1" /\ gerror' = "shop.csv not found"
    /\ UNCHANGED <<KAKAO_API_KEY, GOOGLE_MAPS_API_KEY, use_google, input_exists,
                   infile, rows_processed, rows_geocoded, outfile, events>>
    /\ UNCHANGED <<pvars, hvars, tvars>>

\* __main__ calls process_csv: counters zeroed, files opened, header written
GeoOpen ==
    /\ gpc = "start" /\ input_exists
    /\ gpc' = "loop"
    /\ rows_processed' = 0 /\ rows_geocoded' = 0 /\ outfile' = <<>>
    /\ UNCHANGED <<KAKAO_API_KEY, GOOGLE_MAPS_API_KEY, use_google, input_exists,
                   infile, events, gerror>>
    /\ UNCHANGED <<pvars, hvars, tvars>>

OutRow(row, lat, lon) ==
    [SHOP_NAME |-> row.SHOP_NAME, ADDRESS |-> row.ADDRESS,
     LATITUDE |-> lat, LONGITUDE |-> lon]

\* the address taken as it stands in the table
RowAddress_NoStrip(row) == row.ADDRESS

\* address = row.get('ADDRESS', '').strip()
RowAddress(row) == Strip(row.ADDRESS)

\* "for row in reader": the row the next iteration reads
NextRow == infile[rows_processed + 1]

\* one iteration of "for row in reader" whose address is empty
GeoRowNoAddress ==
    /\ gpc = "loop" /\ rows_processed < Len(infile)
    /\ RowAddress(NextRow) = <<>>
    /\ rows_processed' = rows_processed + 1
    /\ outfile' = Append(outfile, OutRow(NextRow, <<>>, <<>>))
    /\ UNCHANGED <<KAKAO_API_KEY, GOOGLE_MAPS_API_KEY, use_google, input_exists,
                   infile, gpc, rows_geocoded, events, gerror>>
    /\ UNCHANGED <<pvars, hvars, tvars>>

\* the exception leaves process_csv; __main__ catches ValueError only
GeoAbort(n, res) ==
    /\ rows_processed' = n
    /\ events' = IF res.called
                 THEN Append(events, [ev |-> "call", row |-> n, out |-> "raised"])
                 ELSE events
    /\ gerror' = res.raised
    /\ gpc' = IF StartsWith(res.raised, "ValueError") THEN "exit1" ELSE "traceback"
    /\ UNCHANGED <<rows_geocoded, outfile>>

\* a found pair of which only the latitude reaches the row
GeoWrite_LatOnly(n, row, res) ==
    /\ rows_processed' = n
    /\ events' = events \o
           << [ev |-> "call", row |-> n,
               out |-> IF res.value.tag = "tuple" THEN "geocoded" ELSE "failed"],
              [ev |-> "sleep", row |-> n, out |-> ""] >>
    /\ IF res.value.tag = "tuple"
       THEN /\ outfile' = Append(outfile, OutRow(row, FloatStr(res.value.val[1]), <<>>))
            /\ rows_geocoded' = rows_geocoded + 1
       ELSE /\ outfile' = Append(outfile, OutRow(row, <<>>, <<>>))
            /\ UNCHANGED rows_geocoded
    /\ UNCHANGED <<gpc, gerror>>

\* a failed lookup whose row is not written
GeoWrite_DropFailed(n, row, res) ==
    /\ rows_processed' = n
    /\ events' = events \o
           << [ev |-> "call", row |-> n,
               out |-> IF res.value.tag = "tuple" THEN "geocoded" ELSE "failed"],
              [ev |-> "sleep", row |-> n, out |-> ""] >>
    /\ IF res.value.tag = "tuple"
       THEN /\ outfile' = Append(outfile, OutRow(row, FloatStr(res.value.val[1]),
                                                 FloatStr(res.value.val[2])))
            /\ rows_geocoded' = rows_geocoded + 1
       ELSE UNCHANGED <<outfile, rows_geocoded>>
    /\ UNCHANGED <<gpc, gerror>>

\* the sleep taken only after a lookup that found coordinates
GeoWrite_SleepOnSuccess(n, row, res) ==
    /\ rows_processed' = n
    /\ IF res.value.tag = "tuple"
       THEN /\ events' = events \o
                   << [ev |-> "call", row |-> n, out |-> "geocoded"],
                      [ev |-> "sleep", row |-> n, out |-> ""] >>
            /\ outfile' = Append(outfile, OutRow(row, FloatStr(res.value.val[1]),
                                                 FloatStr(res.value.val[2])))
            /\ rows_geocoded' = rows_geocoded + 1
       ELSE /\ events' = Append(events, [ev |-> "call", row |-> n, out |-> "failed"])
            /\ outfile' = Append(outfile, OutRow(row, <<>>, <<>>))
            /\ UNCHANGED rows_geocoded
    /\ UNCHANGED <<gpc, gerror>>

\* the row is written after the lookup and the sleep
GeoWrite(n, row, res) ==
    /\ rows_processed' = n
    /\ events' = events \o
           << [ev |-> "call", row |-> n,
               out |-> IF res.value.tag = "tuple" THEN "geocoded" ELSE "failed"],
              [ev |-> "sleep", row |-> n, out |-> ""] >>
    /\ IF res.value.tag = "tuple"
       THEN /\ outfile' = Append(outfile, OutRow(row, FloatStr(res.value.val[1]),
                                                 FloatStr(res.value.val[2])))
            /\ rows_geocoded' = rows_geocoded + 1
       ELSE /\ outfile' = Append(outfile, OutRow(row, <<>>, <<>>))
            /\ UNCHANGED rows_geocoded
    /\ UNCHANGED <<gpc, gerror>>

\* the iteration once coords = geocode_func(address) is known
GeoRowStep(res) ==
    /\ gpc = "loop" /\ rows_processed < Len(infile)
    /\ RowAddress(NextRow) # <<>>
    /\ IF res.raised # ""
       THEN GeoAbort(rows_processed + 1, res)
       ELSE GeoWrite(rows_processed + 1, NextRow, res)
    /\ UNCHANGED <<KAKAO_API_KEY, GOOGLE_MAPS_API_KEY, use_google, input_exists, infile>>

\* one iteration with a non-empty address, geocode_func = geocode_address_kakao
GeoRowKakao ==
    /\ ~use_google
    /\ gpc = "loop" /\ rows_processed < Len(infile)
    /\ \E resp \in KakaoResponses :
           GeoRowStep(geocode_address_kakao(RowAddress(NextRow), resp))
    /\ UNCHANGED <<pvars, hvars, tvars>>

\* one iteration with a non-empty address, geocode_func = geocode_address_google
GeoRowGoogle ==
    /\ use_google
    /\ gpc = "loop" /\ rows_processed < Len(infile)
    /\ \E resp \in GoogleResponses :
           GeoRowStep(geocode_address_google(RowAddress(NextRow), resp))
    /\ UNCHANGED <<pvars, hvars, tvars>>

\* reader exhausted: files closed, summary printed
GeoSummary ==
    /\ gpc = "loop" /\ rows_processed = Len(infile)
    /\ gpc' = "done"
    /\ UNCHANGED <<KAKAO_API_KEY, GOOGLE_MAPS_API_KEY, use_google, input_exists,
                   infile, rows_processed, rows_geocoded, outfile, events, gerror>>
    /\ UNCHANGED <<pvars, hvars, tvars>>

----------------------------------------------------------------------------
(* parse_shop_type on its own *)

\* one entry of a TYPE_OF_SHOP list: the labels, nothing, unknown text, and
\* labels with text around them
TypeTokens ==
    { NAIL_LABEL, GENERAL_LABEL, COMPREHENSIVE_LABEL, SKIN_LABEL, MAKEUP_LABEL,
      GENERIC_LABEL, <<>>, <<"x">>,
      NAIL_LABEL \o <<"x">>,
      <<"x">> \o SKIN_LABEL,
      SKIN_LABEL \o <<" ">> \o GENERAL_LABEL }

TypeSeparators == { <<",", " ">>, <<FullWidthComma>> }

RECURSIVE TypeLists(_)
TypeLists(n) ==
    IF n = 1 THEN TypeTokens
    ELSE LET shorter == TypeLists(n - 1)
         IN  shorter \cup {q \o sep \o t : q \in shorter, sep \in TypeSeparators,
                                           t \in TypeTokens}

TypeStrings == TypeLists(MaxTypes)

ParseIdle == type_str = <<>> /\ parsed = [main |-> "", sub |-> PyNone] /\ ppc = "idle"

ParseInit ==
    /\ type_str \in TypeStrings
    /\ parsed = [main |-> "", sub |-> PyNone]
    /\ ppc = "call"

ParseCall ==
    /\ ppc = "call"
    /\ parsed' = parse_shop_type(type_str)
    /\ ppc' = "returned"
    /\ UNCHANGED type_str
    /\ UNCHANGED <<gvars, hvars, tvars>>

----------------------------------------------------------------------------
(* transform_shops_for_supabase.py: record building and main *)

\* str.split() without argument: pieces between runs of whitespace
RECURSIVE SplitWS(_, _, _)
SplitWS(s, cur, acc) ==
    IF s = <<>> THEN (IF cur = <<>> THEN acc ELSE Append(acc, cur))
    ELSE IF IsSpace(Head(s))
         THEN SplitWS(Tail(s), <<>>, IF cur = <<>> THEN acc ELSE Append(acc, cur))
         ELSE SplitWS(Tail(s), Append(cur, Head(s)), acc)

\* ' '.join(words)
RECURSIVE JoinSpace(_)
JoinSpace(words) ==
    IF words = <<>> THEN <<>>
    ELSE IF Len(words) = 1 THEN words[1]
    ELSE words[1] \o <<" ">> \o JoinSpace(Tail(words))

\* the number trimmed at both ends, inner blanks left as they are
clean_phone_number_StripOnly(number) ==
    LET cleaned_ == Strip(number)
    IN  IF ~StartsWith(cleaned_, <<"0">>) THEN <<"0">> \o cleaned_ ELSE cleaned_

clean_phone_number(number) ==
    LET cleaned_ == JoinSpace(SplitWS(number, <<>>, <<>>))
    IN  IF ~StartsWith(cleaned_, <<"0">>) THEN <<"0">> \o cleaned_ ELSE cleaned_

PhoneChars == {"0", "2", " ", "\t"}

\* the example of the specification: "02  123  4567"
PhoneExample ==
    <<"0", "2", " ", " ", "1", "2", "3", " ", " ", "4", "5", "6", "7">>

PhoneStrings == SeqsUpTo(PhoneChars, MaxPhone) \cup {PhoneExample}

PhoneIdle == phone = <<>> /\ cleaned = <<>> /\ recleaned = <<>> /\ hpc = "idle"

PhoneInit ==
    /\ phone \in PhoneStrings
    /\ cleaned = <<>> /\ recleaned = <<>>
    /\ hpc = "call"

PhoneClean ==
    /\ hpc = "call"
    /\ cleaned' = clean_phone_number(phone)
    /\ hpc' = "once"
    /\ UNCHANGED <<phone, recleaned>>
    /\ UNCHANGED <<gvars, pvars, tvars>>

PhoneCleanAgain ==
    /\ hpc = "once"
    /\ recleaned' = clean_phone_number(cleaned)
    /\ hpc' = "twice"
    /\ UNCHANGED <<phone, cleaned>>
    /\ UNCHANGED <<gvars, pvars, tvars>>

\* 37.4 <= lat <= 37.7 and 126.8 <= lon <= 127.2
InSeoulBounds(lat, lon) == 374 <= lat /\ lat <= 377 /\ 1268 <= lon /\ lon <= 1272

\* a record built only for coordinates inside the Seoul box
transform_shop_BoundsSkip(row, index, shop_id) ==
    IF row.LATITUDE = <<>> \/ row.LONGITUDE = <<>>
    THEN [tag |-> "None", log |-> "no coordinates"]
    ELSE LET lat == ParseFloat(row.LATITUDE)
             lon == ParseFloat(row.LONGITUDE)
         IN  IF ~lat.ok \/ ~lon.ok
             THEN [tag |-> "None", log |-> "invalid coordinates"]
             ELSE IF ~InSeoulBounds(lat.val, lon.val)
             THEN [tag |-> "None", log |-> "outside Seoul bounds"]
             ELSE LET cats == parse_shop_type(row.TYPE_OF_SHOP)
                  IN  [tag |-> "shop",
                       log |-> "",
                       id |-> shop_id,
                       name |-> Strip(row.SHOP_NAME),
                       address |-> Strip(row.ADDRESS),
                       phone_number |-> clean_phone_number(row.PHONE_NUMBER),
                       latitude |-> lat.val,
                       longitude |-> lon.val,
                       main_category |-> cats.main,
                       sub_categories |-> cats.sub,
                       shop_type |-> "non_partnered",
                       shop_status |-> "pending_approval",
                       verification_status |-> "pending",
                       commission_rate |-> "0.15",
                       total_bookings |-> 0,
                       is_featured |-> FALSE]

\* transform_shop(row, index); shop_id stands for str(uuid.uuid4()).  The
\* created_at/updated_at pair (the wall clock) is left out of the record.
transform_shop(row, index, shop_id) ==
    IF row.LATITUDE = <<>> \/ row.LONGITUDE = <<>>
    THEN [tag |-> "None", log |-> "no coordinates"]
    ELSE LET lat == ParseFloat(row.LATITUDE)
             lon == ParseFloat(row.LONGITUDE)
         IN  IF ~lat.ok \/ ~lon.ok
             THEN [tag |-> "None", log |-> "invalid coordinates"]
             ELSE LET cats == parse_shop_type(row.TYPE_OF_SHOP)
                  IN  [tag |-> "shop",
                       log |-> IF InSeoulBounds(lat.val, lon.val) THEN ""
                               ELSE "outside Seoul bounds",
                       id |-> shop_id,
                       name |-> Strip(row.SHOP_NAME),
                       address |-> Strip(row.ADDRESS),
                       phone_number |-> clean_phone_number(row.PHONE_NUMBER),
                       latitude |-> lat.val,
                       longitude |-> lon.val,
                       main_category |-> cats.main,
                       sub_categories |-> cats.sub,
                       shop_type |-> "non_partnered",
                       shop_status |-> "pending_approval",
                       verification_status |-> "pending",
                       commission_rate |-> "0.15",
                       total_bookings |-> 0,
                       is_featured |-> FALSE]

TRowBase ==
    [SHOP_NAME |-> <<"N">>, ADDRESS |-> <<"a">>,
     PHONE_NUMBER |-> <<"0", "2", " ", " ", "1">>,
     TYPE_OF_SHOP |-> NAIL_LABEL,
     LATITUDE |-> <<"3", "7", ".", "5">>,
     LONGITUDE |-> <<"1", "2", "7", ".", "0">>]

\* rows of shop_with_coordinates.csv
TRowPool ==
    { TRowBase,
      [TRowBase EXCEPT !.SHOP_NAME = <<"M">>,
                       !.PHONE_NUMBER = <<"2", " ", "1">>,
                       !.TYPE_OF_SHOP = GENERAL_LABEL \o <<",", " ">> \o NAIL_LABEL,
                       !.LATITUDE = <<"4", "0", ".", "0">>],
      [TRowBase EXCEPT !.SHOP_NAME = <<"E">>, !.LATITUDE = <<>>, !.LONGITUDE = <<>>],
      [TRowBase EXCEPT !.SHOP_NAME = <<"F">>, !.LONGITUDE = <<>>],
      [TRowBase EXCEPT !.SHOP_NAME = <<"W">>, !.LATITUDE = <<" ">>],
      [TRowBase EXCEPT !.SHOP_NAME = <<"X">>, !.LONGITUDE = <<"n", "/", "a">>] }

NoRow == [TRowBase EXCEPT !.SHOP_NAME = <<>>]

TransIdle ==
    /\ tpc = "idle" /\ tinput_exists = FALSE /\ trow = NoRow /\ idx = 0
    /\ shops = <<>> /\ skipped = 0 /\ echoed = <<>>
    /\ out_json = PyNone /\ test_batch = PyNone

TransInit ==
    /\ tpc = "start" /\ tinput_exists \in BOOLEAN /\ trow = NoRow /\ idx = 0
    /\ shops = <<>> /\ skipped = 0 /\ echoed = <<>>
    /\ out_json = PyNone /\ test_batch = PyNone

\* open(input_file) raises FileNotFoundError, which nothing catches
TransMissingInput ==
    /\ tpc = "start" /\ ~tinput_exists
    /\ tpc' = "traceback"
    /\ UNCHANGED <<tinput_exists, trow, idx, shops, skipped, echoed,
                   out_json, test_batch>>
    /\ UNCHANGED <<gvars, pvars, hvars>>

TransOpen ==
    /\ tpc = "start" /\ tinput_exists
    /\ tpc' = "loop"
    /\ shops' = <<>> /\ skipped' = 0
    /\ UNCHANGED <<tinput_exists, trow, idx, echoed, out_json, test_batch>>
    /\ UNCHANGED <<gvars, pvars, hvars>>

\* uuid4() never repeats: the next unused number stands for it
FreshId == Len(shops) + 1

\* one iteration of "for idx, row in enumerate(reader, 1)" that appends
TransRowBuilt ==
    /\ tpc = "loop" /\ idx < MaxTRows
    /\ \E row \in TRowPool :
         LET shop == transform_shop(row, idx + 1, FreshId)
         IN  /\ shop.tag = "shop"
             /\ trow' = row
             /\ idx' = idx + 1
             /\ shops' = Append(shops, shop)
             /\ echoed' = IF idx + 1 <= 5 THEN Append(echoed, shop) ELSE echoed
    /\ UNCHANGED <<tpc, tinput_exists, skipped, out_json, test_batch>>
    /\ UNCHANGED <<gvars, pvars, hvars>>

\* one iteration whose transform_shop returned None
TransRowSkipped ==
    /\ tpc = "loop" /\ idx < MaxTRows
    /\ \E row \in TRowPool :
         LET shop == transform_shop(row, idx + 1, FreshId)
         IN  /\ shop.tag = "None"
             /\ trow' = row
             /\ idx' = idx + 1
             /\ skipped' = skipped + 1
    /\ UNCHANGED <<tpc, tinput_exists, shops, echoed, out_json, test_batch>>
    /\ UNCHANGED <<gvars, pvars, hvars>>

\* shops[-10:]
FirstTen_LastTen(s) == SubSeq(s, IF Len(s) < 10 THEN 1 ELSE Len(s) - 9, Len(s))

\* shops[:10]
FirstTen(s) == SubSeq(s, 1, IF Len(s) < 10 THEN Len(s) ELSE 10)

\* reader exhausted: summary, json.dump of shops and of the test batch
TransFinish ==
    /\ tpc = "loop"
    /\ out_json' = PyList(shops)
    /\ test_batch' = PyList(FirstTen(shops))
    /\ tpc' = "done"
    /\ UNCHANGED <<tinput_exists, trow, idx, shops, skipped, echoed>>
    /\ UNCHANGED <<gvars, pvars, hvars>>

----------------------------------------------------------------------------
(* Specifications *)

Init == GeoInit /\ ParseIdle /\ PhoneIdle /\ TransIdle

Next ==
    \/ GeoMissingInput
    \/ GeoOpen
    \/ GeoRowNoAddress
    \/ GeoRowKakao
    \/ GeoRowGoogle
    \/ GeoSummary

\* the Geocoder script
Spec == Init /\ [][Next]_vars

InitParse == GeoIdle /\ ParseInit /\ PhoneIdle /\ TransIdle

NextParse == ParseCall

\* parse_shop_type over TypeStrings
SpecParse == InitParse /\ [][NextParse]_vars

InitTrans == GeoIdle /\ ParseIdle /\ PhoneIdle /\ TransInit

NextTrans ==
    \/ TransMissingInput
    \/ TransOpen
    \/ TransRowBuilt
    \/ TransRowSkipped
    \/ TransFinish

\* the Transformer script
SpecTrans == InitTrans /\ [][NextTrans]_vars

InitPhone == GeoIdle /\ ParseIdle /\ PhoneInit /\ TransIdle

NextPhone ==
    \/ PhoneClean
    \/ PhoneCleanAgain

\* clean_phone_number over PhoneStrings, applied once and then to its own result
SpecPhone == InitPhone /\ [][NextPhone]_vars

----------------------------------------------------------------------------
(* Properties of the Geocoder (Spec) *)

SelectedKeyAbsent ==
    IF use_google THEN GOOGLE_MAPS_API_KEY = "" ELSE KAKAO_API_KEY = ""

Blank(s) == \A i \in 1..Len(s) : s[i] \in {" ", "\t"}

CallsFor(i) == {k \in 1..Len(events) : events[k].ev = "call" /\ events[k].row = i}

\* C1: when the selected provider's credential is absent, the run ends in a
\* configuration error before any row is processed: no row is ever counted in
\* rows_processed and no data row is ever written.
C1_FailFast ==
    SelectedKeyAbsent => rows_processed = 0 /\ outfile = <<>>

\* C2: once the first row has been counted the run does not abort because of
\* that row or a later one; a run ends without its summary (exit or traceback)
\* only with no row processed or for the missing credential.
C2_NoAbortAfterFirstRow ==
    gpc \in {"exit1", "traceback"} =>
        \/ rows_processed = 0
        \/ gerror \in {"ValueError: KAKAO_API_KEY environment variable not set",
                       "ValueError: GOOGLE_MAPS_API_KEY environment variable not set"}

\* C3: every written row has LATITUDE and LONGITUDE both filled or both empty.
C3_BothOrNeither ==
    \A i \in 1..Len(outfile) :
        (outfile[i].LATITUDE = <<>>) <=> (outfile[i].LONGITUDE = <<>>)

C3_Witness ==
    /\ gpc = "done"
    /\ \E i \in 1..Len(outfile) :
           /\ outfile[i].LATITUDE # <<>> /\ outfile[i].LONGITUDE # <<>>
           /\ \E k \in CallsFor(i) : events[k].out = "geocoded"
    /\ \E i \in 1..Len(outfile) :
           /\ outfile[i].LATITUDE = <<>> /\ outfile[i].LONGITUDE = <<>>
           /\ \E k \in CallsFor(i) : events[k].out = "failed"

\* C4: a row whose ADDRESS is blank (empty after trimming) gets no provider
\* call and is written with both coordinates empty; a provider call is made
\* only for a row whose ADDRESS is not blank.
C4_NoCallForBlank ==
    /\ \A i \in 1..Len(outfile) :
           Blank(infile[i].ADDRESS) =>
               /\ outfile[i].LATITUDE = <<>> /\ outfile[i].LONGITUDE = <<>>
               /\ CallsFor(i) = {}
    /\ \A k \in 1..Len(events) :
           events[k].ev = "call" => ~Blank(infile[events[k].row].ADDRESS)

C4_Witness ==
    /\ gpc = "done"
    /\ \E i \in 1..Len(outfile) : infile[i].ADDRESS = <<" ">>
    /\ \E i \in 1..Len(outfile) : infile[i].ADDRESS = <<>>
    /\ \E i \in 1..Len(outfile) : CallsFor(i) # {}

\* C5: a completed run has written exactly one output row per input row, in
\* input order; a row whose lookup failed has empty coordinates, and no row is
\* looked up more than once.
C5_OneRowPerInputRow ==
    gpc = "done" =>
        /\ Len(outfile) = Len(infile)
        /\ \A i \in 1..Len(infile) :
               /\ outfile[i].SHOP_NAME = infile[i].SHOP_NAME
               /\ outfile[i].ADDRESS = infile[i].ADDRESS
               /\ Cardinality(CallsFor(i)) <= 1
               /\ (\E k \in CallsFor(i) : events[k].out = "failed") =>
                      outfile[i].LATITUDE = <<>> /\ outfile[i].LONGITUDE = <<>>

C5_Witness ==
    /\ gpc = "done" /\ Len(infile) = 3 /\ Len(outfile) = 3
    /\ CallsFor(1) # {} /\ events[1].out = "failed"
    /\ Blank(infile[2].ADDRESS)
    /\ \E k \in CallsFor(3) : events[k].out = "geocoded"

----------------------------------------------------------------------------
(* Properties of parse_shop_type (SpecParse) *)

IsComma(c) == c \in {",", FullWidthComma}

\* the positions that delimit the entries of s: before it, its commas, after it
Cuts(s) == {0} \cup {i \in 1..Len(s) : IsComma(s[i])} \cup {Len(s) + 1}
NthCut(cuts, k) ==
    CHOOSE b \in cuts : Cardinality({c \in cuts : c < b}) = k - 1

Trimmed(t) ==
    IF Blank(t) THEN <<>>
    ELSE LET solid == {i \in 1..Len(t) : t[i] \notin {" ", "\t"}}
             first == CHOOSE i \in solid : \A j \in solid : i <= j
             last  == CHOOSE i \in solid : \A j \in solid : j <= i
         IN  SubSeq(t, first, last)

\* the tokens of s: the text between consecutive cuts, trimmed
Tokens(s) ==
    LET cuts == Cuts(s)
    IN  [k \in 1..(Cardinality(cuts) - 1) |->
            Trimmed(SubSeq(s, NthCut(cuts, k) + 1, NthCut(cuts, k + 1) - 1))]

LabelOrder ==
    <<NAIL_LABEL, GENERAL_LABEL, COMPREHENSIVE_LABEL, SKIN_LABEL, MAKEUP_LABEL,
      GENERIC_LABEL>>
LabelEnum == <<"nail", "hair", "hair", "waxing", "eyebrow_tattoo", "hair">>

Within(t) == {k \in 1..6 : Contains(LabelOrder[k], t)}

\* the value the rule gives a token
RuleValue(t) ==
    IF \E k \in 1..6 : LabelOrder[k] = t
    THEN LabelEnum[CHOOSE k \in 1..6 : LabelOrder[k] = t]
    ELSE IF Within(t) # {}
    THEN LabelEnum[CHOOSE k \in Within(t) : \A j \in Within(t) : k <= j]
    ELSE "hair"

RuleValues(s) ==
    LET toks == Tokens(s)
    IN  [k \in 1..Len(toks) |-> RuleValue(toks[k])]

\* main followed by the sub-categories
ResultList(r) == <<r.main>> \o (IF r.sub.tag = "list" THEN r.sub.val ELSE <<>>)

Range(q) == {q[i] : i \in 1..Len(q)}

FirstAt(q, v) == CHOOSE i \in 1..Len(q) : q[i] = v /\ \A j \in 1..(i - 1) : q[j] # v

\* C6: parse_shop_type is total: whatever the input, main is one of the five
\* categories (never empty) and so is every sub-category.
C6_Total ==
    ppc = "returned" =>
        /\ parsed.main \in {"nail", "eyelash", "waxing", "eyebrow_tattoo", "hair"}
        /\ parsed.sub.tag \in {"None", "list"}
        /\ \A v \in Range(parsed.sub.val) :
               v \in {"nail", "eyelash", "waxing", "eyebrow_tattoo", "hair"}

C6_Witness ==
    /\ ppc = "returned"
    /\ type_str = <<",", " ", FullWidthComma, "x">>
    /\ parsed = [main |-> "hair", sub |-> PyNone]

DocstringExample ==
    GENERAL_LABEL \o <<",", " ">> \o NAIL_LABEL \o <<",", " ">> \o MAKEUP_LABEL

\* C8: the result is the tokens' values without repetition in first-seen
\* order: main is the first token's value, sub holds the other distinct values
\* in the order they first appear, without main and without duplicates, and
\* sub is None (never an empty list) when there is one distinct value.
C8_DedupFirstSeen ==
    ppc = "returned" =>
        LET vals == RuleValues(type_str)
            res  == ResultList(parsed)
        IN  /\ parsed.main = vals[1]
            /\ Range(res) = Range(vals)
            /\ \A i, j \in 1..Len(res) :
                   i < j => res[i] # res[j] /\ FirstAt(vals, res[i]) < FirstAt(vals, res[j])
            /\ parsed.sub.tag = "list" => Len(parsed.sub.val) >= 1
            /\ (parsed.sub.tag = "None") <=> (Cardinality(Range(vals)) = 1)
            /\ type_str = DocstringExample =>
                   parsed = [main |-> "hair", sub |-> PyList(<<"nail", "eyebrow_tattoo">>)]

C8_Witness ==
    /\ ppc = "returned"
    /\ type_str = DocstringExample
    /\ parsed = [main |-> "hair", sub |-> PyList(<<"nail", "eyebrow_tattoo">>)]

----------------------------------------------------------------------------
(* Properties of the Transformer (SpecTrans) *)

\* a coordinate cell that is not blank and reads as a number
Usable(cell) == ~Blank(cell) /\ ParseFloat(cell).ok

\* C9: each row read either appends one record built from it at the end of
\* shops, exactly when LATITUDE and LONGITUDE are both non-blank numbers (inside
\* the Seoul box or not), or appends nothing and adds one to skipped; so
\* records + skipped = rows read, and shops is in row order.
C9_AppendOrSkip ==
    /\ [](tpc \in {"loop", "done"} => Len(shops) + skipped = idx)
    /\ [][idx' = idx + 1 =>
            IF Usable(trow'.LATITUDE) /\ Usable(trow'.LONGITUDE)
            THEN /\ Len(shops') = Len(shops) + 1
                 /\ SubSeq(shops', 1, Len(shops)) = shops
                 /\ shops'[Len(shops')].name = Trimmed(trow'.SHOP_NAME)
                 /\ shops'[Len(shops')].latitude = ParseFloat(trow'.LATITUDE).val
                 /\ shops'[Len(shops')].longitude = ParseFloat(trow'.LONGITUDE).val
                 /\ skipped' = skipped
            ELSE /\ shops' = shops
                 /\ skipped' = skipped + 1]_vars

C9_Witness ==
    /\ tpc = "done" /\ idx = 4 /\ skipped = 2 /\ Len(shops) = 2
    /\ trow.LATITUDE = <<" ">>
    /\ shops[1].latitude = 400 /\ shops[2].latitude = 375

\* C10: after a run the sample batch holds the first min(10, N) records of the
\* N-record output array, in the same order, identifiers included.
C10_SamplePrefix ==
    tpc = "done" =>
        LET full   == out_json.val
            sample == test_batch.val
        IN  /\ out_json.tag = "list" /\ test_batch.tag = "list"
            /\ full = shops
            /\ Len(sample) = (IF Len(full) < 10 THEN Len(full) ELSE 10)
            /\ \A i \in 1..Len(sample) : sample[i] = full[i]
            /\ \A i, j \in 1..Len(full) : i # j => full[i].id # full[j].id

C10_Witness ==
    /\ tpc = "done"
    /\ Len(out_json.val) = 11
    /\ Len(test_batch.val) = 10
    /\ test_batch.val[10].id = out_json.val[10].id

\* the first min(n, Len(q)) elements of q
Prefix(q, n) == SubSeq(q, 1, IF Len(q) < n THEN Len(q) ELSE n)

\* C11: the records echoed to the progress log are exactly the first
\* min(5, N) records of the N-record output array, however many rows were
\* skipped before or between them.
C11_EchoFirstFive ==
    tpc = "done" => echoed = Prefix(shops, 5)

----------------------------------------------------------------------------
(* Properties of clean_phone_number (SpecPhone) *)

\* the positions of the characters of s that are not whitespace, in order
Solid(s) == {i \in 1..Len(s) : s[i] \notin {" ", "\t"}}
NthSolid(s, k) == CHOOSE i \in Solid(s) : Cardinality({j \in Solid(s) : j < i}) = k - 1

\* r is s with every run of whitespace between two characters made one space
\* and nothing else changed (whitespace at the ends is dropped)
Collapsed(s, r) ==
    /\ Cardinality(Solid(r)) = Cardinality(Solid(s))
    /\ \A i \in 1..Len(r) : r[i] # "\t"
    /\ r # <<>> => r[1] # " " /\ r[Len(r)] # " "
    /\ \A k \in 1..Cardinality(Solid(s)) : r[NthSolid(r, k)] = s[NthSolid(s, k)]
    /\ \A k \in 1..(Cardinality(Solid(s)) - 1) :
           NthSolid(r, k + 1) - NthSolid(r, k) =
               (IF NthSolid(s, k + 1) - NthSolid(s, k) > 1 THEN 2 ELSE 1)

\* C12: clean_phone_number collapses each run of whitespace inside the number
\* to one space and puts "0" in front exactly when the collapsed text does not
\* start with "0"; the result starts with "0", has no two adjacent whitespace
\* characters, and cleaning it again changes nothing.
C12_PhoneCleaning ==
    /\ hpc \in {"once", "twice"} =>
           /\ cleaned # <<>> /\ cleaned[1] = "0"
           /\ \A i \in 1..(Len(cleaned) - 1) :
                  ~(cleaned[i] \in {" ", "\t"} /\ cleaned[i + 1] \in {" ", "\t"})
           /\ IF Solid(phone) # {} /\ phone[NthSolid(phone, 1)] = "0"
              THEN Collapsed(phone, cleaned)
              ELSE Collapsed(phone, Tail(cleaned))
           /\ phone = PhoneExample =>
                  cleaned = <<"0", "2", " ", "1", "2", "3", " ", "4", "5", "6", "7">>
    /\ hpc = "twice" => recleaned = cleaned

C12_Witness ==
    /\ hpc = "twice"
    /\ phone = <<"2", " ", "\t", "0">>
    /\ cleaned = <<"0", "2", " ", "0">>
    /\ recleaned = cleaned

----------------------------------------------------------------------------
(* The Geocoder's delay (Spec) *)

\* C13: between the provider call of one row and the provider call of any
\* later row there is a sleep, whether the earlier lookup found coordinates or
\* not: every lookup that returns is followed at once by the sleep of its row;
\* a row with a blank address causes neither a call nor a sleep.
C13_DelayAfterLookup ==
    /\ \A k, l \in 1..Len(events) :
           (k < l /\ events[k].ev = "call" /\ events[l].ev = "call") =>
               \E m \in (k + 1)..(l - 1) : events[m].ev = "sleep"
    /\ \A k \in 1..Len(events) :
           (events[k].ev = "call" /\ events[k].out \in {"geocoded", "failed"}) =>
               /\ k < Len(events)
               /\ events[k + 1] = [ev |-> "sleep", row |-> events[k].row, out |-> ""]
    /\ \A k \in 1..Len(events) : ~Blank(infile[events[k].row].ADDRESS)

C13_Witness ==
    /\ gpc = "done" /\ Len(infile) = 3
    /\ Blank(infile[2].ADDRESS)
    /\ Len(events) = 4
    /\ events[1] = [ev |-> "call", row |-> 1, out |-> "failed"]
    /\ events[2].ev = "sleep"
    /\ events[3] = [ev |-> "call", row |-> 3, out |-> "geocoded"]
    /\ events[4].ev = "sleep"

====
